---- MODULE Spec2Model ----
(***************************************************************************)
(* Chunked summarization pipeline of weekly-digest                         *)
(* (src/chunked_summarizer.py): Tokenizer and ChunkedSummarizer.           *)
(*                                                                         *)
(* A text is a sequence of pieces.  A piece is either a whitespace piece   *)
(* or a whitespace-free piece, so that str.split(), str.strip() and the    *)
(* sentence regex can be computed on the sequence as Python computes them  *)
(* on the characters.  "A." stands for a block of prose that ends with a   *)
(* period, "A" for a block of prose without a sentence end, "_" for a      *)
(* block of blank space, "H" for a very long block of prose.               *)
(* tiktoken is an external library: count_tokens charges every piece a     *)
(* fixed number of tokens.                                                 *)
(***************************************************************************)
EXTENDS Integers, Sequences, FiniteSets, TLC

(* ---- program constants (chunked_summarizer.py:21-24) ---- *)
MAX_CHUNK_TOKENS == 10000
MAX_FINAL_WORDS == 300
MAX_RETRIES == 3
RETRY_DELAY == 2
(* money is counted in units of 10^-8 dollar: 0.00015 and 0.0006 dollars per *)
(* 1000 tokens (lines 25-26), 800 tokens of merge output (line 233), and the *)
(* 1.0 dollar above which main() asks before processing (line 422)           *)
GPT4O_MINI_INPUT_COST_PER_1K == 15000
GPT4O_MINI_OUTPUT_COST_PER_1K == 60000
MERGE_OUTPUT_TOKENS == 800
CONFIRM_ABOVE_COST == 100000000

(* ---- bounds of the model ---- *)
MaxTextLen == 5
WordTokens == 6000
GapTokens == 2600
OtherMaxWords == 100
MaxDirectSummaries == 3
MaxChunkIndex == 2
HugeTokens == 4000000
SmallChunkSize == 6002
MaxFileLen == 3

(* ---- texts ---- *)
NLNL == "\n\n"
DocAlphabet == {"A.", "_"}
WhiteSpace == {" ", "_", "\n", NLNL}
SentenceEnd == {".", "!", "?", "A."}

RECURSIVE SeqsUpTo(_, _)
SeqsUpTo(S, n) ==
  IF n = 0 THEN {<<>>}
  ELSE LET shorter == SeqsUpTo(S, n - 1)
       IN  shorter \cup {Append(s, c) : s \in {t \in shorter : Len(t) = n - 1}, c \in S}

Docs == SeqsUpTo(DocAlphabet, MaxTextLen)

PieceTokens(p) ==
  IF p \in {"A", "A."} THEN WordTokens
  ELSE IF p = "_" THEN GapTokens
  ELSE IF p = "H" THEN HugeTokens
  ELSE 1

RECURSIVE count_tokens(_)
count_tokens(text) ==
  IF text = <<>> THEN 0 ELSE PieceTokens(Head(text)) + count_tokens(Tail(text))

RECURSIVE lstrip(_)
lstrip(s) ==
  IF s # <<>> /\ Head(s) \in WhiteSpace THEN lstrip(Tail(s)) ELSE s

RECURSIVE rstrip(_)
rstrip(s) ==
  IF s # <<>> /\ s[Len(s)] \in WhiteSpace THEN rstrip(SubSeq(s, 1, Len(s) - 1)) ELSE s

strip(s) == rstrip(lstrip(s))

(* len(s.split()): the number of maximal runs of non-whitespace *)
RECURSIVE word_count(_)
word_count(s) ==
  IF s = <<>> THEN 0
  ELSE (IF Head(s) \notin WhiteSpace /\ (Len(s) = 1 \/ s[2] \in WhiteSpace) THEN 1 ELSE 0)
       + word_count(Tail(s))

(* re.split(r'(?<=[.!?])\s+', text): cut out every whitespace run that     *)
(* directly follows a sentence end; cur is the field being collected.      *)
RECURSIVE re_split(_, _, _)
re_split(text, i, cur) ==
  IF i > Len(text) THEN <<cur>>
  ELSE IF text[i] \in WhiteSpace /\ i > 1 /\ text[i - 1] \in SentenceEnd
       THEN LET j == CHOOSE k \in i..Len(text) :
                       /\ \A m \in i..k : text[m] \in WhiteSpace
                       /\ (k = Len(text) \/ text[k + 1] \notin WhiteSpace)
            IN  <<cur>> \o re_split(text, j + 1, <<>>)
       ELSE re_split(text, i + 1, Append(cur, text[i]))

(* mutant: fields that are empty once stripped are kept as sentences *)
RECURSIVE StripAndKeepEmpty(_)
StripAndKeepEmpty(fields) ==
  IF fields = <<>> THEN <<>>
  ELSE <<strip(Head(fields))>> \o StripAndKeepEmpty(Tail(fields))

RECURSIVE StripAndDropEmpty(_)
StripAndDropEmpty(fields) ==
  IF fields = <<>> THEN <<>>
  ELSE (IF strip(Head(fields)) # <<>> THEN <<strip(Head(fields))>> ELSE <<>>)
       \o StripAndDropEmpty(Tail(fields))

split_into_sentences(text) == StripAndDropEmpty(re_split(text, 1, <<>>))

(* mutant: a sealed chunk is put in front of the chunks collected so far *)
RECURSIVE ChunkLoop_prepend(_, _, _, _)
ChunkLoop_prepend(sentences, chunks, current_chunk, max_tokens) ==
  IF sentences = <<>>
  THEN IF current_chunk # <<>> THEN <<strip(current_chunk)>> \o chunks ELSE chunks
  ELSE LET sentence == Head(sentences)
           test_chunk == current_chunk \o sentence \o <<NLNL>>
       IN  IF count_tokens(test_chunk) <= max_tokens
           THEN ChunkLoop_prepend(Tail(sentences), chunks, test_chunk, max_tokens)
           ELSE ChunkLoop_prepend(Tail(sentences),
                                  IF current_chunk # <<>>
                                  THEN <<strip(current_chunk)>> \o chunks ELSE chunks,
                                  sentence \o <<NLNL>>, max_tokens)

(* mutant: only the sentence is measured against the budget *)
RECURSIVE ChunkLoop_sentence_only(_, _, _, _)
ChunkLoop_sentence_only(sentences, chunks, current_chunk, max_tokens) ==
  IF sentences = <<>>
  THEN IF current_chunk # <<>> THEN Append(chunks, strip(current_chunk)) ELSE chunks
  ELSE LET sentence == Head(sentences)
           test_chunk == current_chunk \o sentence \o <<NLNL>>
       IN  IF count_tokens(sentence) <= max_tokens
           THEN ChunkLoop_sentence_only(Tail(sentences), chunks, test_chunk, max_tokens)
           ELSE ChunkLoop_sentence_only(Tail(sentences),
                                        IF current_chunk # <<>>
                                        THEN Append(chunks, strip(current_chunk)) ELSE chunks,
                                        sentence \o <<NLNL>>, max_tokens)

(* mutant: a sentence that exceeds the budget on its own is left out *)
RECURSIVE ChunkLoop_skip_oversized(_, _, _, _)
ChunkLoop_skip_oversized(sentences, chunks, current_chunk, max_tokens) ==
  IF sentences = <<>>
  THEN IF current_chunk # <<>> THEN Append(chunks, strip(current_chunk)) ELSE chunks
  ELSE LET sentence == Head(sentences)
           test_chunk == current_chunk \o sentence \o <<NLNL>>
       IN  IF count_tokens(test_chunk) <= max_tokens
           THEN ChunkLoop_skip_oversized(Tail(sentences), chunks, test_chunk, max_tokens)
           ELSE IF count_tokens(sentence) > max_tokens
           THEN ChunkLoop_skip_oversized(Tail(sentences), chunks, current_chunk, max_tokens)
           ELSE ChunkLoop_skip_oversized(Tail(sentences),
                                         IF current_chunk # <<>>
                                         THEN Append(chunks, strip(current_chunk)) ELSE chunks,
                                         sentence \o <<NLNL>>, max_tokens)

(* mutant: every sentence is sealed as a chunk of its own *)
RECURSIVE ChunkLoop_one_each(_, _, _, _)
ChunkLoop_one_each(sentences, chunks, current_chunk, max_tokens) ==
  IF sentences = <<>> THEN chunks
  ELSE ChunkLoop_one_each(Tail(sentences), Append(chunks, Head(sentences)),
                          current_chunk, max_tokens)

(* the for-loop of split_into_chunks over the remaining sentences *)
RECURSIVE ChunkLoop(_, _, _, _)
ChunkLoop(sentences, chunks, current_chunk, max_tokens) ==
  IF sentences = <<>>
  THEN IF current_chunk # <<>> THEN Append(chunks, strip(current_chunk)) ELSE chunks
  ELSE LET sentence == Head(sentences)
           test_chunk == current_chunk \o sentence \o <<NLNL>>
       IN  IF count_tokens(test_chunk) <= max_tokens
           THEN ChunkLoop(Tail(sentences), chunks, test_chunk, max_tokens)
           ELSE ChunkLoop(Tail(sentences),
                          IF current_chunk # <<>>
                          THEN Append(chunks, strip(current_chunk)) ELSE chunks,
                          sentence \o <<NLNL>>, max_tokens)

(* mutant: a text within the budget is chunked sentence by sentence too *)
split_into_chunks_always(text, max_tokens) ==
  ChunkLoop(split_into_sentences(text), <<>>, <<>>, max_tokens)

split_into_chunks(text, max_tokens) ==
  IF count_tokens(text) <= max_tokens THEN <<text>>
  ELSE ChunkLoop(split_into_sentences(text), <<>>, <<>>, max_tokens)

(* ---- the LLM (client.chat.completions.create), an external collaborator ---- *)
(* "ok": the call returns and response.choices[0].message.content is the   *)
(* str content; "none": the call returns and message.content, an            *)
(* Optional[str], is None; "transient": it raises RateLimitError, APIError  *)
(* or APIConnectionError, str(e) being "E1"; "other": it raises any other   *)
(* Exception, str(e) being "E2".                                           *)
(* Python's None where a text is expected: no text holds this piece         *)
None == <<"<None>">>
Contents == {<<"S1", " ", "S1.">>}
ErrorMessages == {<<"E1">>, <<"E2">>}
LLMOutcomes ==
  {[kind |-> "ok", content |-> c, msg |-> <<>>] : c \in Contents}
  \cup {[kind |-> "none", content |-> None, msg |-> <<>>],
        [kind |-> "transient", content |-> <<>>, msg |-> <<"E1">>],
        [kind |-> "other", content |-> <<>>, msg |-> <<"E2">>]}
(* the call returned a response *)
Replied(o) == o.kind \in {"ok", "none"}

(* ---- formatting ---- *)
Digits3(n) == <<ToString(n \div 100), ToString((n \div 10) % 10), ToString(n % 10)>>

(* f"{token_count:,}" *)
RECURSIVE thousands(_)
thousands(n) ==
  IF n < 1000 THEN <<ToString(n)>>
  ELSE thousands(n \div 1000) \o <<",">> \o Digits3(n % 1000)

(* "# <chart emoji> Executive Summary\n\n" *)
Header == <<"#", " ", "<chart>", " ", "Executive", " ", "Summary", NLNL>>

Footer(word_cnt, token_cnt) ==
  <<NLNL, "---", "\n", "*Generated", " ", "from", " ", ToString(word_cnt), " ", "words", " ", "(">>
  \o thousands(token_cnt) \o <<" ", "tokens)*">>

format_final_summary(summary) ==
  Header \o summary \o Footer(word_count(summary), count_tokens(summary))

NoContentBody == <<"No", " ", "content", " ", "was", " ", "provided", " ", "for", " ", "analysis.">>
NoContentSummary == Header \o NoContentBody

(* f"## Chunk {chunk_index + 1} Summary\n\n*Summary generation failed: {str(e)}*" *)
(* mutant: the placeholder shows the 0-based index *)
ChunkNumberZeroBased(idx) == idx
ChunkNumber(idx) == idx + 1

ChunkPlaceholder(idx, msg) ==
  <<"##", " ", "Chunk", " ", ToString(ChunkNumber(idx)), " ", "Summary", NLNL,
    "*Summary", " ", "generation", " ", "failed:", " ">> \o msg \o <<"*">>

(* f"# <cross emoji> Summary Generation Failed\n\nError: {e}" *)
DirectFailure(msg) ==
  <<"#", " ", "<cross>", " ", "Summary", " ", "Generation", " ", "Failed", NLNL, "Error:", " ">>
  \o msg

(* "\n\n".join(summaries) *)
RECURSIVE join(_)
join(ss) ==
  IF ss = <<>> THEN <<>>
  ELSE IF Len(ss) = 1 THEN ss[1]
  ELSE ss[1] \o <<NLNL>> \o join(Tail(ss))

(* ---- prompts: what each template embeds ---- *)
create_chunk_prompt(c, idx, tot) ==
  [kind |-> "chunk", content |-> c, part |-> idx + 1, of |-> tot, words |-> 100]
create_merge_prompt(ss) ==
  [kind |-> "merge", content |-> join(ss), part |-> Len(ss), of |-> Len(ss), words |-> 250]
(* mutant: the direct prompt asks for the default budget *)
create_direct_prompt_default(t, mw) ==
  [kind |-> "direct", content |-> t, part |-> 1, of |-> 1, words |-> MAX_FINAL_WORDS]
create_direct_prompt(t, mw) ==
  [kind |-> "direct", content |-> t, part |-> 1, of |-> 1, words |-> mw]

(* ---- what a call or a step of a retry loop comes to ---- *)
Returned(v) == [pc |-> "done", ret |-> v, exc |-> ""]
Raised(e) == [pc |-> "raised", ret |-> <<>>, exc |-> e]
Running(p) == [pc |-> p, ret |-> <<>>, exc |-> ""]

(* _format_final_summary(summary) as a call: summary.split() raises          *)
(* AttributeError when summary is None                                      *)
format_call(summary) ==
  IF summary = None THEN Raised("AttributeError")
  ELSE Returned(format_final_summary(summary))
(* str(e) of that AttributeError *)
NoneHasNoSplit ==
  <<"'NoneType'", " ", "object", " ", "has", " ", "no", " ", "attribute", " ", "'split'">>
(* "\n\n".join(summaries) as a call: TypeError when an item is None          *)
HasNone(ss) == \E i \in 1..Len(ss) : ss[i] = None
FirstNone(ss) == CHOOSE i \in 1..Len(ss) : ss[i] = None /\ \A j \in 1..(i - 1) : ss[j] # None
(* str(e) of that TypeError *)
JoinTypeError(ss) ==
  <<"sequence", " ", "item", " ", ToString(FirstNone(ss) - 1) \o ":", " ", "expected", " ",
    "str", " ", "instance,", " ", "NoneType", " ", "found">>

(* ---- retry policy (summarize_chunk and merge_summaries) ---- *)
IsTransient(o) == o.kind = "transient"
(* mutant: one more retry is allowed *)
ShouldRetry_once_more(att) == att < MAX_RETRIES

ShouldRetry(att) == att < MAX_RETRIES - 1
(* mutant: the backoff exponent counts attempts from 1 *)
wait_time_from_one(att) == RETRY_DELAY * (2 ^ (att + 1))
wait_time(att) == RETRY_DELAY * (2 ^ att)

(* the client guard of summarize_chunk and of summarize_text *)
(* mutant: summarize_text and summarize_chunk do not look at the client *)
client_check_skipped(cl, p) == Running(p)

client_check(cl, p) ==
  IF ~cl THEN Raised("ValueError") ELSE Running(p)

(* mutant: the loop has no "except Exception" clause *)
chunk_attempt_uncaught(idx, att, o) ==
  IF Replied(o) THEN Returned(o.content)
  ELSE IF o.kind = "other" THEN Raised("Exception")
  ELSE IF ShouldRetry(att) THEN Running("chunk")
  ELSE Returned(ChunkPlaceholder(idx, o.msg))

(* one pass of the retry loop of summarize_chunk, the LLM call having ended as o *)
(* mutant: every failure is retried while attempts remain *)
chunk_attempt_retries_all(idx, att, o) ==
  IF Replied(o) THEN Returned(o.content)
  ELSE IF ShouldRetry(att) THEN Running("chunk")
  ELSE Returned(ChunkPlaceholder(idx, o.msg))

chunk_attempt(idx, att, o) ==
  IF Replied(o) THEN Returned(o.content)
  ELSE IF IsTransient(o) /\ ShouldRetry(att) THEN Running("chunk")
  ELSE Returned(ChunkPlaceholder(idx, o.msg))

(* mutant: a single summary is trimmed before it is formatted *)
merge_entry_trimmed(ss, cl) ==
  IF ss = <<>> THEN Returned(NoContentSummary)
  ELSE IF Len(ss) = 1
  THEN IF ss[1] = None THEN Raised("AttributeError")
       ELSE Returned(format_final_summary(strip(ss[1])))
  ELSE IF HasNone(ss) THEN Raised("TypeError")
  ELSE IF ~cl THEN Returned(format_final_summary(join(ss)))
  ELSE Running("merge")

(* mutant: the empty list goes through the formatter like any other result *)
merge_entry_empty_formatted(ss, cl) ==
  IF Len(ss) <= 1 THEN format_call(join(ss))
  ELSE IF HasNone(ss) THEN Raised("TypeError")
  ELSE IF ~cl THEN Returned(format_final_summary(join(ss)))
  ELSE Running("merge")

(* merge_summaries up to its first LLM call; the join of line 152 is outside *)
(* the try                                                                  *)
merge_entry(ss, cl) ==
  IF ss = <<>> THEN Returned(NoContentSummary)
  ELSE IF Len(ss) = 1 THEN format_call(ss[1])
  ELSE IF HasNone(ss) THEN Raised("TypeError")
  ELSE IF ~cl THEN Returned(format_final_summary(join(ss)))  \* None.chat raises inside the try
  ELSE Running("merge")

(* mutant: the fallback keeps the first partial summary only *)
merge_attempt_first_only(ss, att, o) ==
  IF Replied(o) /\ format_call(o.content).pc = "done" THEN format_call(o.content)
  ELSE IF IsTransient(o) /\ ShouldRetry(att) THEN Running("merge")
  ELSE Returned(format_final_summary(ss[1]))

(* one pass of the retry loop of merge_summaries; the AttributeError of     *)
(* formatting a None reply is raised inside the try and caught by          *)
(* "except Exception", like any non-transient failure                      *)
merge_attempt(ss, att, o) ==
  IF Replied(o) /\ format_call(o.content).pc = "done" THEN format_call(o.content)
  ELSE IF IsTransient(o) /\ ShouldRetry(att) THEN Running("merge")
  ELSE Returned(format_final_summary(join(ss)))

(* the single try of _direct_summarize; formatting is inside the try *)
direct_attempt(o) ==
  IF Replied(o)
  THEN IF format_call(o.content).pc = "done" THEN format_call(o.content)
       ELSE Returned(DirectFailure(NoneHasNoSplit))
  ELSE Returned(DirectFailure(o.msg))

(* mutant: the summary is put in front *)
collect_in_front(ss, v) == <<v>> \o ss
(* summaries.append(summary) *)
collect(ss, v) == Append(ss, v)

(* ---- state ---- *)
VARIABLES
  client,        \* self.client is set (an API key was configured)
  entry,         \* the operation the caller invoked
  pc,            \* "idle", "chunk", "merge", "direct", "done", "raised"
  text,          \* summarize_text: the document
  max_words,     \* summarize_text: the word budget
  chunks,        \* summarize_text: the chunk list
  summaries,     \* the partial summaries collected / given to merge_summaries
  chunk,         \* summarize_chunk: the chunk
  chunk_index,   \* summarize_chunk: its 0-based index
  total_chunks,  \* summarize_chunk: the chunk count
  attempt,       \* loop variable of the running retry loop
  ret,           \* what the entry operation returned
  exc,           \* the exception the entry operation raised ("" when none)
  trace          \* what happened so far: invocations, LLM calls, sleeps, returns

vars == <<client, entry, pc, text, max_words, chunks, summaries, chunk, chunk_index,
          total_chunks, attempt, ret, exc, trace>>

(* trace entries.  An LLM call is entered with how it ended; msg is the      *)
(* error message where the code reads it to build its result (str(e)).      *)
Event(ev, op, idx, n, out, msg, arg) ==
  [ev |-> ev, op |-> op, idx |-> idx, n |-> n, out |-> out, msg |-> msg, arg |-> arg]
Invoke(op, idx, n, arg) == Event("invoke", op, idx, n, "", <<>>, arg)
LLMCall(op, idx, att, o, r, prompt) ==
  Event("llm", op, idx, att, o.kind, IF r.pc = "done" THEN o.msg ELSE <<>>, prompt)
Sleep(op, idx, secs) == Event("sleep", op, idx, secs, "", <<>>, <<>>)
Return(op, idx, v) == Event("return", op, idx, 0, "", <<>>, v)

(* main(), lines 449-451: an exception x out of summarize_text is caught   *)
(* by main, which prints it and calls sys.exit(1); where nothing was       *)
(* raised (x = "") nothing leaves main                                      *)
main_raises(e, x) == IF e = "main" /\ x # "" THEN "SystemExit" ELSE x
main_after_error(e, tr, msg) ==
  IF e = "main" THEN Append(tr, Event("print", "main", 0, 0, "error", msg, <<>>)) ELSE tr

(* main(), lines 432-447: summarize_text has returned v to main, which saves *)
(* it with save_summary and prints the statistics                           *)
main_after_summary(e, tr, v) ==
  IF e = "main"
  THEN tr \o <<Return("summarize_text", 0, v),
               Invoke("save_summary", 0, word_count(v), v),
               Return("main", 0, <<>>)>>
  ELSE tr

Init ==
  /\ client \in BOOLEAN
  /\ entry = "none"
  /\ pc = "idle"
  /\ text = <<>>
  /\ max_words = MAX_FINAL_WORDS
  /\ chunks = <<>>
  /\ summaries = <<>>
  /\ chunk = <<>>
  /\ chunk_index = 0
  /\ total_chunks = 0
  /\ attempt = 0
  /\ ret = <<>>
  /\ exc = ""
  /\ trace = <<>>

(* summarize_text(text, max_words) up to its first LLM call; e is the entry  *)
(* operation and tr what happened before the call                           *)
StartSummarizeText(e, t, mw, tr) ==
  /\ text' = t
  /\ max_words' = mw
  /\ UNCHANGED <<client, summaries, attempt>>
  /\ LET g == client_check(client, "chunk")
         cs == split_into_chunks(t, MAX_CHUNK_TOKENS)
     IN  IF g.pc = "raised"
         THEN /\ pc' = g.pc
              /\ exc' = g.exc
              /\ trace' = tr
              /\ UNCHANGED <<chunks, chunk, chunk_index, total_chunks, ret>>
         ELSE /\ chunks' = cs
              /\ IF Len(cs) = 1
                 THEN /\ pc' = "direct"
                      /\ trace' = Append(tr, Invoke("_direct_summarize", 0, mw, t))
                      /\ UNCHANGED <<chunk, chunk_index, total_chunks, ret, exc>>
                 ELSE IF cs = <<>>
                 THEN LET m == merge_entry(<<>>, client)
                      IN  /\ pc' = m.pc
                          /\ ret' = m.ret
                          /\ exc' = m.exc
                          /\ trace' = main_after_summary(e,
                                         tr \o <<Invoke("merge_summaries", 0, 0, <<>>),
                                                 Return("merge_summaries", 0, m.ret)>>,
                                         m.ret)
                          /\ UNCHANGED <<chunk, chunk_index, total_chunks>>
                 ELSE /\ pc' = "chunk"
                      /\ chunk' = cs[1]
                      /\ chunk_index' = 0
                      /\ total_chunks' = Len(cs)
                      /\ trace' = Append(tr, Invoke("summarize_chunk", 0, Len(cs), cs[1]))
                      /\ UNCHANGED <<ret, exc>>

SummarizeText(t, mw) ==
  /\ pc = "idle"
  /\ entry' = "summarize_text"
  /\ StartSummarizeText("summarize_text", t, mw, <<>>)

(* summarize_chunk(chunk, chunk_index, total_chunks) called on its own *)
SummarizeChunk(c, idx, tot) ==
  /\ pc = "idle"
  /\ entry' = "summarize_chunk"
  /\ chunk' = c
  /\ chunk_index' = idx
  /\ total_chunks' = tot
  /\ trace' = <<Invoke("summarize_chunk", idx, tot, c)>>
  /\ LET g == client_check(client, "chunk")
     IN  pc' = g.pc /\ exc' = g.exc
  /\ UNCHANGED <<client, text, max_words, chunks, summaries, attempt, ret>>

(* merge_summaries(summaries) called on its own *)
MergeSummaries(ss) ==
  /\ pc = "idle"
  /\ entry' = "merge_summaries"
  /\ summaries' = ss
  /\ LET m == merge_entry(ss, client)
     IN  /\ pc' = m.pc
         /\ ret' = m.ret
         /\ exc' = m.exc
         /\ trace' = <<Invoke("merge_summaries", 0, Len(ss), ss)>>
                     \o (IF m.pc = "done" THEN <<Return("merge_summaries", 0, m.ret)>> ELSE <<>>)
  /\ UNCHANGED <<client, text, max_words, chunks, chunk, chunk_index, total_chunks, attempt>>

(* summarize_chunk returns v: to the caller, or into the loop of summarize_text, *)
(* which appends it and goes on to the next chunk or to merge_summaries         *)
ChunkReturns(v, tr) ==
  IF entry = "summarize_chunk"
  THEN /\ pc' = "done"
       /\ ret' = v
       /\ trace' = tr
       /\ UNCHANGED <<summaries, chunk, chunk_index, attempt, exc>>
  ELSE LET ss == collect(summaries, v)
       IN  /\ summaries' = ss
           /\ IF chunk_index + 1 < Len(chunks)
              THEN /\ pc' = "chunk"
                   /\ chunk_index' = chunk_index + 1
                   /\ chunk' = chunks[chunk_index + 2]
                   /\ attempt' = 0
                   /\ trace' = Append(tr, Invoke("summarize_chunk", chunk_index + 1,
                                                 Len(chunks), chunks[chunk_index + 2]))
                   /\ UNCHANGED <<ret, exc>>
              ELSE LET m == merge_entry(ss, client)
                       called == Append(tr, Invoke("merge_summaries", 0, Len(ss), ss))
                   IN  /\ pc' = m.pc
                       /\ ret' = m.ret
                       /\ exc' = main_raises(entry, m.exc)
                       /\ attempt' = 0
                       /\ trace' = IF m.pc = "done"
                                   THEN Append(called, Return("merge_summaries", 0, m.ret))
                                   ELSE IF m.pc = "raised"
                                   THEN main_after_error(entry, called, JoinTypeError(ss))
                                   ELSE called
                       /\ UNCHANGED <<chunk, chunk_index>>

(* one pass of the retry loop of summarize_chunk (lines 85-118) *)
ChunkAttempt(o) ==
  /\ pc = "chunk"
  /\ LET r == chunk_attempt(chunk_index, attempt, o)
         tr == Append(trace, LLMCall("chunk", chunk_index, attempt, o, r,
                                     create_chunk_prompt(chunk, chunk_index, total_chunks)))
     IN  IF r.pc = "chunk"
         THEN /\ attempt' = attempt + 1
              /\ trace' = Append(tr, Sleep("chunk", chunk_index, wait_time(attempt)))
              /\ UNCHANGED <<pc, summaries, chunk, chunk_index, ret, exc>>
         ELSE IF r.pc = "raised"
         THEN /\ pc' = "raised"
              /\ exc' = r.exc
              /\ trace' = tr
              /\ UNCHANGED <<summaries, chunk, chunk_index, attempt, ret>>
         ELSE ChunkReturns(r.ret, Append(tr, Return("summarize_chunk", chunk_index, r.ret)))
  /\ UNCHANGED <<client, entry, text, max_words, chunks, total_chunks>>

(* one pass of the retry loop of merge_summaries (lines 176-208) *)
MergeAttempt(o) ==
  /\ pc = "merge"
  /\ LET r == merge_attempt(summaries, attempt, o)
         tr == Append(trace, LLMCall("merge", 0, attempt, o, r,
                                     create_merge_prompt(summaries)))
     IN  IF r.pc = "merge"
         THEN /\ attempt' = attempt + 1
              /\ trace' = Append(tr, Sleep("merge", 0, wait_time(attempt)))
              /\ UNCHANGED <<pc, ret, exc>>
         ELSE /\ pc' = r.pc
              /\ ret' = r.ret
              /\ exc' = r.exc
              /\ trace' = IF r.pc = "done"
                          THEN main_after_summary(entry,
                                 Append(tr, Return("merge_summaries", 0, r.ret)), r.ret)
                          ELSE tr
              /\ UNCHANGED attempt
  /\ UNCHANGED <<client, entry, text, max_words, chunks, summaries, chunk, chunk_index,
                 total_chunks>>

(* _direct_summarize (lines 276-319): one call, no retry loop *)
DirectAttempt(o) ==
  /\ pc = "direct"
  /\ LET r == direct_attempt(o)
         tr == Append(trace, LLMCall("direct", 0, 0, o, r,
                                     create_direct_prompt(text, max_words)))
     IN  /\ pc' = r.pc
         /\ ret' = r.ret
         /\ exc' = r.exc
         /\ trace' = IF r.pc = "done"
                     THEN main_after_summary(entry,
                            Append(tr, Return("_direct_summarize", 0, r.ret)), r.ret)
                     ELSE tr
  /\ UNCHANGED <<client, entry, text, max_words, chunks, summaries, chunk, chunk_index,
                 total_chunks, attempt>>

(* ---- inputs ---- *)
MaxWordsChoices == {MAX_FINAL_WORDS, OtherMaxWords}
ChunkInputs == {<<"A.">>, <<"A.", NLNL, "A">>}
ChunkIndexes == 0..MaxChunkIndex
SummaryInputs ==
  {<<"S1", " ", "S1.">>, <<" ", "S2", NLNL>>, ChunkPlaceholder(1, <<"E1">>)}
SummaryLists == SeqsUpTo(SummaryInputs, MaxDirectSummaries)

Next ==
  \/ \E t \in Docs, mw \in MaxWordsChoices : SummarizeText(t, mw)
  \/ \E c \in ChunkInputs, idx \in ChunkIndexes : SummarizeChunk(c, idx, MaxChunkIndex + 1)
  \/ \E ss \in SummaryLists : MergeSummaries(ss)
  \/ \E o \in LLMOutcomes : ChunkAttempt(o)
  \/ \E o \in LLMOutcomes : MergeAttempt(o)
  \/ \E o \in LLMOutcomes : DirectAttempt(o)

Spec == Init /\ [][Next]_vars

(* ---- reading the trace ---- *)
Is(e, ev, op) == e.ev = ev /\ e.op = op
Positions(ev, op) == {p \in 1..Len(trace) : Is(trace[p], ev, op)}
Events(ev, op) == SelectSeq(trace, LAMBDA e : Is(e, ev, op))
HasPiece(v, piece) == \E k \in 1..Len(v) : v[k] = piece
Contains(v, sub) == \E k \in 0..(Len(v) - Len(sub)) : SubSeq(v, k + 1, k + Len(sub)) = sub
Finished == pc \in {"done", "raised"}

(* the chunk loop of summarize_text, for a document of n chunks: chunk k is  *)
(* given to the k-th summarize_chunk invocation with index k - 1, what that  *)
(* invocation returns is summaries[k] (a placeholder where its last LLM call *)
(* failed), and merge_summaries is invoked once, after the last chunk, with  *)
(* all n summaries.                                                          *)
ChunkLoopOrder ==
  LET n == Len(chunks)
      inv == Events("invoke", "summarize_chunk")
      rets == Events("return", "summarize_chunk")
      merges == Events("invoke", "merge_summaries")
  IN  /\ Len(inv) <= n
      /\ \A k \in 1..Len(inv) : inv[k].idx = k - 1 /\ inv[k].arg = chunks[k] /\ inv[k].n = n
      /\ Len(rets) = Len(summaries)
      /\ Len(inv) - Len(rets) \in {0, 1}
      /\ \A k \in 1..Len(rets) : rets[k].idx = k - 1 /\ summaries[k] = rets[k].arg
      /\ \A p \in Positions("return", "summarize_chunk") :
           ~Replied([kind |-> trace[p - 1].out]) =>
             /\ SubSeq(trace[p].arg, 1, 5) = <<"##", " ", "Chunk", " ", ToString(trace[p].idx + 1)>>
             /\ Contains(trace[p].arg, trace[p - 1].msg)
      /\ Len(merges) <= 1
      /\ \A p \in Positions("invoke", "merge_summaries") :
           /\ Len(summaries) = n
           /\ trace[p].arg = summaries
           /\ \A q \in Positions("invoke", "summarize_chunk") \cup Positions("llm", "chunk") : q < p
      /\ Finished => Len(inv) = n /\ Len(summaries) = n /\ Len(merges) = 1

(* C1 as stated: for every document and every pattern of LLM outcomes, on a  *)
(* summarizer with a client, summarize_text invokes summarize_chunk once per *)
(* chunk in ascending index, appends one partial summary per chunk in that   *)
(* order, and then invokes merge_summaries once with all n summaries.        *)
C1_Original ==
  (entry = "summarize_text" /\ client) => ChunkLoopOrder

(* C1, amended: the same for every document that split_into_chunks does not  *)
(* turn into exactly one chunk (a one-chunk document takes the direct path   *)
(* and neither summarize_chunk nor merge_summaries is invoked).              *)
C1_ChunkLoop ==
  (entry = "summarize_text" /\ client /\ Len(chunks) # 1) => ChunkLoopOrder

C1_Witness ==
  /\ entry = "summarize_text" /\ pc = "done" /\ Len(chunks) = 3
  /\ summaries[1] = ChunkPlaceholder(0, <<"E2">>)
  /\ summaries[2] \in Contents
  /\ summaries[3] = ChunkPlaceholder(2, <<"E1">>)

(* C2: summarize_chunk makes at most 3 LLM calls for one chunk; after a      *)
(* transient failure on attempt k < 3 it sleeps 2 * 2^(k-1) seconds and      *)
(* calls again; after a success, after a non-transient failure and after     *)
(* the third attempt it returns without sleeping and without another call.   *)
C2_ChunkRetrySchedule ==
  /\ \A p \in Positions("llm", "chunk") :
       LET e == trace[p]
           k == e.n + 1
       IN  /\ k <= 3
           /\ IF k = 1
              THEN Is(trace[p - 1], "invoke", "summarize_chunk") /\ trace[p - 1].idx = e.idx
              ELSE /\ Is(trace[p - 1], "sleep", "chunk")
                   /\ Is(trace[p - 2], "llm", "chunk")
                   /\ trace[p - 2].n = e.n - 1 /\ trace[p - 2].idx = e.idx
           /\ p < Len(trace)
           /\ IF e.out = "transient" /\ k < 3
              THEN /\ Is(trace[p + 1], "sleep", "chunk")
                   /\ trace[p + 1].n = 2 * 2 ^ (k - 1)
                   /\ trace[p + 1].n \in {2, 4}
              ELSE Is(trace[p + 1], "return", "summarize_chunk") /\ trace[p + 1].idx = e.idx
  /\ \A p \in Positions("sleep", "chunk") :
       /\ Is(trace[p - 1], "llm", "chunk") /\ trace[p - 1].out = "transient"
       /\ p < Len(trace) => Is(trace[p + 1], "llm", "chunk")

C2_Witness ==
  /\ entry = "summarize_chunk" /\ pc = "done"
  /\ Len(trace) = 7
  /\ trace[3].n = 2 /\ trace[5].n = 4
  /\ trace[6].out = "transient"

(* the return of a summarize_chunk whose three LLM calls all failed transiently *)
ExhaustedReturns ==
  {p \in Positions("return", "summarize_chunk") :
     trace[p - 1].n = 2 /\ trace[p - 1].out = "transient"}

(* C3 as stated: a summarize_chunk whose LLM call fails transiently on all   *)
(* 3 attempts returns a placeholder that contains the failure's message and  *)
(* the chunk index it was called with.                                       *)
C3_Original ==
  /\ \A p \in Positions("llm", "chunk") :
       (trace[p].n = 2 /\ trace[p].out = "transient") =>
          (p < Len(trace) /\ Is(trace[p + 1], "return", "summarize_chunk"))
  /\ \A p \in ExhaustedReturns :
       /\ Contains(trace[p].arg, trace[p - 1].msg)
       /\ HasPiece(trace[p].arg, ToString(trace[p].idx))

(* C3, amended: ... returns (does not raise) a placeholder that contains the *)
(* failure's message and the chunk's 1-based number, chunk_index + 1.        *)
C3_ExhaustedPlaceholder ==
  /\ \A p \in Positions("llm", "chunk") :
       (trace[p].n = 2 /\ trace[p].out = "transient") =>
          (p < Len(trace) /\ Is(trace[p + 1], "return", "summarize_chunk"))
  /\ \A p \in ExhaustedReturns :
       /\ trace[p - 1].msg \in ErrorMessages
       /\ Contains(trace[p].arg, trace[p - 1].msg)
       /\ SubSeq(trace[p].arg, 1, 7)
            = <<"##", " ", "Chunk", " ", ToString(trace[p].idx + 1), " ", "Summary">>
       /\ ~HasPiece(trace[p].arg, ToString(trace[p].idx))
  /\ (entry = "summarize_chunk" /\ ExhaustedReturns # {}) => (pc = "done" /\ exc = "")

C3_Witness ==
  /\ entry = "summarize_chunk" /\ pc = "done" /\ chunk_index = 0
  /\ ExhaustedReturns # {}
  /\ Contains(ret, <<"E1">>)

(* what summarize_chunk may return: the content of the model's reply (the   *)
(* summary, or None when the reply carries no content) or a placeholder     *)
IsChunkResult(v, idx) ==
  \/ v \in Contents
  \/ v = None
  \/ \E m \in ErrorMessages :
       v = <<"##", " ", "Chunk", " ", ToString(idx + 1), " ", "Summary", NLNL,
             "*Summary", " ", "generation", " ", "failed:", " ">> \o m \o <<"*">>

(* C4 as stated: summarize_chunk never raises to its caller, whether the     *)
(* client is initialised or not: it returns the summary or a placeholder.    *)
C4_Original ==
  entry = "summarize_chunk" =>
    /\ pc # "raised" /\ exc = ""
    /\ pc = "done" => IsChunkResult(ret, chunk_index)

(* C4, amended: on a summarizer whose client is initialised summarize_chunk  *)
(* never raises to its caller: for every LLM outcome it returns the content  *)
(* of the model's reply (a string, or None when the reply carries none) or a *)
(* placeholder, and None only for a reply without content.  (Without a       *)
(* client it raises ValueError before any LLM call.)                         *)
C4_NeverRaisesWithClient ==
  /\ (entry = "summarize_chunk" /\ client) =>
       /\ pc # "raised" /\ exc = ""
       /\ pc = "done" => /\ IsChunkResult(ret, chunk_index)
                         /\ ret = None <=> trace[Len(trace) - 1].out = "none"
  /\ (entry = "summarize_chunk" /\ ~client) =>
       /\ pc = "raised" /\ exc = "ValueError"
       /\ Positions("llm", "chunk") = {}

C4_Witness ==
  /\ entry = "summarize_chunk" /\ client /\ pc = "done"
  /\ trace[Len(trace) - 1].out = "other"
  /\ ret = ChunkPlaceholder(chunk_index, <<"E2">>)

(* C5: when split_into_chunks yields exactly one chunk, summarize_text takes *)
(* the direct path: one direct LLM call on the whole text with the caller's  *)
(* max_words, and no summarize_chunk and no merge_summaries.                 *)
C5_DirectPath ==
  (entry = "summarize_text" /\ client /\ Len(chunks) = 1) =>
    /\ trace[1] = Invoke("_direct_summarize", 0, max_words, text)
    /\ \A p \in 1..Len(trace) :
         /\ trace[p].op \notin {"summarize_chunk", "chunk", "merge_summaries", "merge"}
         /\ trace[p].ev = "llm" =>
              /\ p = 2
              /\ trace[p].arg = [kind |-> "direct", content |-> text, part |-> 1, of |-> 1,
                                 words |-> max_words]
    /\ pc \in {"direct", "done"}
    /\ pc = "done" => Len(trace) = 3 /\ Is(trace[2], "llm", "direct")
    /\ summaries = <<>>

C5_Witness ==
  /\ entry = "summarize_text" /\ pc = "done" /\ Len(chunks) = 1
  /\ chunks[1] # text
  /\ max_words = OtherMaxWords
  /\ trace[2].out = "ok"

(* C6 as stated: once summarize_text has passed its client check it never   *)
(* raises and, whatever the per-chunk, merge and direct LLM calls do, goes   *)
(* on until it returns some final text.                                      *)
C6_Original ==
  (entry = "summarize_text" /\ client) =>
    /\ pc # "raised" /\ exc = ""
    /\ pc \in {"chunk", "merge", "direct", "done"}
    /\ pc # "done" =>
         /\ attempt < 3
         /\ \A o \in LLMOutcomes :
              LET r == IF pc = "chunk" THEN chunk_attempt(chunk_index, attempt, o)
                       ELSE IF pc = "merge" THEN merge_attempt(summaries, attempt, o)
                       ELSE direct_attempt(o)
              IN  r.pc \in {pc, "done"} /\ (r.pc = "done" => r.ret # <<>>)
    /\ pc = "done" =>
         /\ ret # <<>>
         /\ trace[Len(trace)].ev = "return" /\ trace[Len(trace)].arg = ret

(* C7 as stated: every LLM call of the pipeline (per-chunk, merge, direct)   *)
(* that fails with a transient error is retried on the backoff schedule      *)
(* (a sleep of 2 * 2^(k-1) seconds after attempt k, then another call)       *)
(* and the pipeline degrades only after the third attempt.                   *)
C7_Original ==
  \A p \in 1..Len(trace) :
    (trace[p].ev = "llm" /\ trace[p].out = "transient") =>
       /\ p < Len(trace)
       /\ IF trace[p].n + 1 < 3
          THEN trace[p + 1].ev = "sleep" /\ trace[p + 1].n = 2 * 2 ^ trace[p].n
          ELSE trace[p + 1].ev = "return"

C9_SingleSummary ==
  (entry = "merge_summaries" /\ Len(summaries) = 1) =>
    /\ pc = "done" /\ exc = ""
    /\ \A p \in 1..Len(trace) : trace[p].ev # "llm"
    /\ SubSeq(ret, 1, Len(Header)) = Header
    /\ SubSeq(ret, Len(Header) + 1, Len(Header) + Len(summaries[1])) = summaries[1]
    /\ SubSeq(ret, Len(Header) + Len(summaries[1]) + 1, Len(ret))
         = Footer(word_count(summaries[1]), count_tokens(summaries[1]))

C9_Witness ==
  /\ entry = "merge_summaries" /\ pc = "done"
  /\ summaries = << <<" ", "S2", NLNL>> >>

(* C10: merge_summaries with an empty list makes no LLM call and returns the *)
(* fixed "no content" summary: the header, then the fixed sentence, and no   *)
(* partial-summary content.                                                  *)
C10_EmptyList ==
  \A p \in Positions("invoke", "merge_summaries") :
    trace[p].n = 0 =>
      /\ trace[p].arg = <<>>
      /\ pc = "done" /\ exc = ""
      /\ \A q \in 1..Len(trace) : trace[q].ev # "llm"
      /\ ret = <<"#", " ", "<chart>", " ", "Executive", " ", "Summary", NLNL,
                 "No", " ", "content", " ", "was", " ", "provided", " ", "for", " ", "analysis.">>
      /\ trace[Len(trace)] = Return("merge_summaries", 0, ret)

C10_Witness ==
  /\ entry = "merge_summaries" /\ pc = "done" /\ summaries = <<>>
  /\ SubSeq(ret, 1, Len(Header)) = Header

(* ---- the shape of a final summary ---- *)
(* v is the header, a body, and the trailer that states the word count and   *)
(* the token count of that body                                              *)
HasStandardShape(v) ==
  \E k \in 0..(Len(v) - Len(Header)) :
    v = format_final_summary(SubSeq(v, Len(Header) + 1, Len(Header) + k))

(* C11 as stated: every text that summarize_text returns, on every path      *)
(* (direct, merged, merge fallback, empty merge, direct-call failure), is    *)
(* the header, a body, and the trailer "---" / "*Generated from <words>      *)
(* words (<tokens> tokens)*" with the counts of that body.                   *)
C11_Original ==
  (entry = "summarize_text" /\ pc = "done") => HasStandardShape(ret)

(* ---- the Tokenizer called on its own ---- *)
(* texts of one-token pieces ("a": a word, ".": a period, " ": a blank) and  *)
(* budgets of a few tokens, so that every branch of split_into_chunks is     *)
(* taken by a short text                                                     *)
MaxFineLen == 6
MaxBudget == 4
FineAlphabet == {"a", ".", " "}
FineTexts == SeqsUpTo(FineAlphabet, MaxFineLen)
Budgets == 1..MaxBudget

(* Tokenizer.split_into_chunks(text, max_tokens): the call and its result *)
SplitIntoChunks(t, m) ==
  /\ pc = "idle"
  /\ entry' = "split_into_chunks"
  /\ text' = t
  /\ chunks' = split_into_chunks(t, m)
  /\ pc' = "done"
  /\ trace' = <<Invoke("split_into_chunks", 0, m, t),
                Return("split_into_chunks", 0, split_into_chunks(t, m))>>
  /\ UNCHANGED <<client, max_words, summaries, chunk, chunk_index, total_chunks,
                 attempt, ret, exc>>

NextTokenizer ==
  \E t \in FineTexts, m \in Budgets : SplitIntoChunks(t, m)

SpecTokenizer == Init /\ [][NextTokenizer]_vars

(* the split_into_chunks call of the state: its max_tokens argument *)
SplitDone == entry = "split_into_chunks" /\ pc = "done"
max_tokens_given == trace[1].n

(* the sentences of the chunks, read in chunk order *)
RECURSIVE SentencesOf(_)
SentencesOf(cs) ==
  IF cs = <<>> THEN <<>>
  ELSE split_into_sentences(Head(cs)) \o SentencesOf(Tail(cs))

(* C12: when count_tokens(T) <= max_tokens, split_into_chunks(T, max_tokens) *)
(* is the one-element list [T], T unmodified (not stripped, not re-joined).  *)
C12_WithinBudgetOneChunk ==
  (SplitDone /\ count_tokens(text) <= max_tokens_given) => chunks = <<text>>

(* a text within the budget that stripping or sentence-splitting would change *)
C12_Witness ==
  /\ SplitDone /\ count_tokens(text) <= max_tokens_given
  /\ text # <<>> /\ text[1] = " "
  /\ Len(split_into_sentences(text)) = 2
  /\ chunks = <<text>>

(* C13: for every text split into more than one chunk, the sentences of the  *)
(* chunks read in chunk order are exactly the sentence list of the text in   *)
(* its order (none dropped, duplicated or reordered) and no chunk is empty.  *)
C13_SentencesPreserved ==
  (SplitDone /\ Len(chunks) > 1) =>
     /\ SentencesOf(chunks) = split_into_sentences(text)
     /\ \A k \in 1..Len(chunks) : chunks[k] # <<>>

(* two chunks, the first of them holding two sentences *)
C13_Witness ==
  /\ SplitDone /\ Len(chunks) = 2
  /\ Len(split_into_sentences(chunks[1])) = 2
  /\ Len(split_into_sentences(text)) = 3

(* C14: every chunk has count_tokens(chunk) <= max_tokens, except a chunk    *)
(* that consists of one single sentence whose own count exceeds max_tokens.  *)
C14_ChunksWithinBudget ==
  SplitDone =>
    \A k \in 1..Len(chunks) :
      \/ count_tokens(chunks[k]) <= max_tokens_given
      \/ /\ split_into_sentences(chunks[k]) = <<chunks[k]>>
         /\ count_tokens(chunks[k]) > max_tokens_given

(* a chunk that fills the budget, followed by an oversized sentence *)
C14_Witness ==
  /\ SplitDone /\ Len(chunks) = 2
  /\ count_tokens(chunks[1]) = max_tokens_given
  /\ count_tokens(chunks[2]) > max_tokens_given

(* C15: a sentence whose own token count exceeds max_tokens is emitted as a  *)
(* chunk that is exactly that sentence, at its place in the order: it is not *)
(* split, not dropped, and no neighbouring sentence is merged into its chunk.*)
C15_OversizedSentenceAlone ==
  SplitDone =>
    LET sents == split_into_sentences(text)
    IN  \A i \in 1..Len(sents) :
          count_tokens(sents[i]) > max_tokens_given =>
            \E k \in 1..Len(chunks) :
              /\ chunks[k] = sents[i]
              /\ Len(SentencesOf(SubSeq(chunks, 1, k - 1))) = i - 1

(* an oversized sentence between two sentences that fit *)
C15_Witness ==
  /\ SplitDone /\ Len(chunks) = 3
  /\ count_tokens(chunks[1]) <= max_tokens_given
  /\ count_tokens(chunks[2]) > max_tokens_given
  /\ count_tokens(chunks[3]) <= max_tokens_given
  /\ split_into_sentences(text) = chunks

(* ---- cost estimation ---- *)
RECURSIVE sum_tokens(_)
sum_tokens(cs) ==
  IF cs = <<>> THEN 0 ELSE count_tokens(Head(cs)) + sum_tokens(Tail(cs))

(* int(input_tokens * 0.2) *)
estimated_output(input_tokens) == (input_tokens * 2) \div 10

(* lines 225-246 of estimate_cost, and the same computation in main(),      *)
(* lines 384-401, which names the total "estimated_total_cost".  The price  *)
(* of one token is a whole number of money units, so the products are exact *)
(* where the code's floats are rounded.                                     *)
cost_fields(total_tokens, cs) ==
  LET input_tokens == sum_tokens(cs)
      estimated_output_tokens == estimated_output(input_tokens)
      merge_input_tokens == estimated_output_tokens
      total_input_cost ==
        (input_tokens + merge_input_tokens) * (GPT4O_MINI_INPUT_COST_PER_1K \div 1000)
      total_output_cost ==
        (estimated_output_tokens + MERGE_OUTPUT_TOKENS)
        * (GPT4O_MINI_OUTPUT_COST_PER_1K \div 1000)
  IN  [total_tokens |-> total_tokens,
       chunks |-> Len(cs),
       estimated_input_tokens |-> input_tokens + merge_input_tokens,
       estimated_output_tokens |-> estimated_output_tokens + MERGE_OUTPUT_TOKENS,
       total_cost |-> total_input_cost + total_output_cost,
       input_cost |-> total_input_cost,
       output_cost |-> total_output_cost]

(* ChunkedSummarizer.estimate_cost(text) *)
estimate_cost(t) == cost_fields(count_tokens(t), split_into_chunks(t, MAX_CHUNK_TOKENS))

(* the cost_estimate of main() for --chunk-size cs *)
main_cost_estimate(content, cs) ==
  cost_fields(count_tokens(content), split_into_chunks(content, cs))

(* mutant: estimate_cost refuses to work without a client *)
estimate_cost_call_needs_client(cl, t) ==
  IF ~cl THEN Raised("ValueError") ELSE [pc |-> "done", ret |-> estimate_cost(t), exc |-> ""]

(* what a call of estimate_cost comes to on a summarizer whose client is cl *)
estimate_cost_call(cl, t) == [pc |-> "done", ret |-> estimate_cost(t), exc |-> ""]

EstimateCost(t) ==
  /\ pc = "idle"
  /\ entry' = "estimate_cost"
  /\ text' = t
  /\ LET r == estimate_cost_call(client, t)
     IN  /\ pc' = r.pc
         /\ ret' = r.ret
         /\ exc' = r.exc
         /\ trace' = <<Invoke("estimate_cost", 0, 0, t)>>
                     \o (IF r.pc = "done" THEN <<Return("estimate_cost", 0, r.ret)>> ELSE <<>>)
  /\ UNCHANGED <<client, max_words, chunks, summaries, chunk, chunk_index, total_chunks,
                 attempt>>

(* ---- the command line: read_file and main() ---- *)
Suffixes == {".md", ".TXT", ".pdf"}
Responses == {"y", "Y", "n"}

(* str.lower() on the suffixes and responses of the model *)
lower(s) ==
  CASE s = ".TXT" -> ".txt"
    [] s = "Y" -> "y"
    [] OTHER -> s

(* the contents of the input file: the short documents, a very long one,    *)
(* and a long sentence followed by a short one                              *)
FileDocs == SeqsUpTo(DocAlphabet, MaxFileLen) \cup {<<"H">>, <<"A.", " ", "a", ".">>}

(* the texts given to estimate_cost: the documents, and a short sentence    *)
(* followed by a long run of blank space                                    *)
CostDocs == Docs \cup {<<"a", ".", "_", "_">>}

(* an input file: whether the path exists, its suffix, whether its bytes    *)
(* decode as UTF-8, and its content                                         *)
Files ==
  {[exists |-> FALSE, suffix |-> ".md", utf8 |-> TRUE, content |-> <<>>]}
  \cup {[exists |-> TRUE, suffix |-> s, utf8 |-> TRUE, content |-> d] :
          s \in Suffixes, d \in FileDocs}
  \cup {[exists |-> TRUE, suffix |-> ".md", utf8 |-> FALSE, content |-> <<>>]}

FileError(e, m) == [pc |-> "raised", ret |-> <<>>, exc |-> e, msg |-> m]

read_file(f) ==
  IF ~f.exists THEN FileError("FileNotFoundError", <<"File not found">>)
  ELSE IF lower(f.suffix) \notin {".txt", ".md"}
  THEN FileError("ValueError", <<"Unsupported file type">>)
  ELSE IF ~f.utf8 THEN FileError("ValueError", <<"Unable to read file">>)
  ELSE IF strip(f.content) = <<>> THEN FileError("ValueError", <<"File is empty">>)
  ELSE [pc |-> "done", ret |-> f.content, exc |-> "", msg |-> <<>>]

(* mutant: whatever the operator answers counts as consent *)
consents_always(resp) == TRUE

(* response.lower() != 'y' cancels (line 424) *)
consents(resp) == lower(resp) = "y"

Stdout(kind, msg, arg) == Event("print", "main", 0, 0, kind, msg, arg)
Input(resp) == Event("input", "main", 0, 0, resp, <<>>, <<>>)

KeyRequired == <<"OpenAI API key is required">>

(* main() up to the first LLM call.  f is the input file, cs --chunk-size,  *)
(* mw --max-words, eo --estimate-only, resp what the operator types when    *)
(* asked; the credential (--openai-key or OPENAI_API_KEY) is client.        *)
Main(f, cs, mw, eo, resp) ==
  /\ pc = "idle"
  /\ entry' = "main"
  /\ LET rf == read_file(f)
         called == <<Invoke("main", 0, cs, [file |-> f, max_words |-> mw, estimate_only |-> eo]),
                     Invoke("read_file", 0, 0, f)>>
         content == rf.ret
         cost_estimate == main_cost_estimate(content, cs)
         estimated == called \o
                      <<Return("read_file", 0, content),
                        Invoke("split_into_chunks", 0, cs, content),
                        Return("split_into_chunks", 0, split_into_chunks(content, cs)),
                        Stdout("estimate", <<>>, cost_estimate)>>
         stop(p, e, tr) ==
           /\ pc' = p
           /\ exc' = e
           /\ trace' = tr
           /\ UNCHANGED <<client, text, max_words, chunks, summaries, chunk, chunk_index,
                          total_chunks, attempt, ret>>
     IN  IF rf.pc = "raised"
         THEN stop("raised", "SystemExit", Append(called, Stdout("error", rf.msg, <<>>)))
         ELSE IF eo
         THEN stop("done", "", Append(estimated, Return("main", 0, <<>>)))
         ELSE IF ~client
         THEN stop("raised", "SystemExit", Append(estimated, Stdout("error", KeyRequired, <<>>)))
         ELSE IF cost_estimate.total_cost > CONFIRM_ABOVE_COST
         THEN IF ~consents(resp)
              THEN stop("done", "", estimated \o <<Input(resp), Return("main", 0, <<>>)>>)
              ELSE StartSummarizeText("main", content, mw,
                     estimated \o <<Input(resp), Invoke("summarize_text", 0, mw, content)>>)
         ELSE StartSummarizeText("main", content, mw,
                Append(estimated, Invoke("summarize_text", 0, mw, content)))

ChunkSizes == {MAX_CHUNK_TOKENS, SmallChunkSize}

NextMain ==
  \/ \E f \in Files, cs \in ChunkSizes, mw \in MaxWordsChoices, eo \in BOOLEAN,
        resp \in Responses : Main(f, cs, mw, eo, resp)
  \/ \E t \in Docs, mw \in MaxWordsChoices : SummarizeText(t, mw)
  \/ \E t \in CostDocs : EstimateCost(t)
  \/ \E o \in LLMOutcomes : ChunkAttempt(o)
  \/ \E o \in LLMOutcomes : MergeAttempt(o)
  \/ \E o \in LLMOutcomes : DirectAttempt(o)

SpecMain == Init /\ [][NextMain]_vars

(* ---- reading a run of main() ---- *)
NoLLMCall == \A p \in 1..Len(trace) : trace[p].ev # "llm"
MainReadFile == entry = "main" /\ Len(trace) >= 3 /\ Is(trace[3], "return", "read_file")
Chunked == Positions("invoke", "split_into_chunks") # {}
Estimated == \E p \in 1..Len(trace) : trace[p].ev = "print" /\ trace[p].out = "estimate"
KeyFailure ==
  /\ pc = "raised" /\ exc = "SystemExit"
  /\ trace[Len(trace)] = Stdout("error", KeyRequired, <<>>)
RaisedAtEntry ==
  pc = "raised" /\ exc = "ValueError" /\ chunks = <<>> /\ trace = <<>>

(* C17 as stated: with no OpenAI credential the configuration failure is     *)
(* reported at entry, before any chunking or cost-estimation work and before *)
(* any LLM call, both in summarize_text and in main().                       *)
C17_Original ==
  ~client =>
    /\ NoLLMCall
    /\ entry = "summarize_text" => RaisedAtEntry
    /\ MainReadFile => (KeyFailure /\ ~Chunked /\ ~Estimated)

(* C17: with no OpenAI credential no LLM call is made.  summarize_text       *)
(* raises ValueError at entry, before it chunks the text.  main(), once it   *)
(* has read the file, chunks it with --chunk-size and prints the cost        *)
(* estimate first; then, without --estimate-only, it reports that the key is *)
(* required and exits with status 1, and with --estimate-only it returns     *)
(* without reporting a configuration failure.                                *)
C17_ConfigurationFailure ==
  ~client =>
    /\ NoLLMCall
    /\ entry = "summarize_text" => RaisedAtEntry
    /\ MainReadFile =>
         /\ Is(trace[4], "invoke", "split_into_chunks")
         /\ trace[6] = Stdout("estimate", <<>>,
                              main_cost_estimate(trace[3].arg, trace[1].n))
         /\ Len(trace) = 7
         /\ IF trace[1].arg.estimate_only
            THEN pc = "done" /\ trace[7] = Return("main", 0, <<>>)
            ELSE KeyFailure

(* main() without a credential: the estimate of a two-chunk document was     *)
(* printed before the failure                                                *)
C17_Witness ==
  /\ ~client /\ MainReadFile /\ KeyFailure
  /\ Estimated /\ trace[6].arg.chunks = 2

(* ---- blank documents ---- *)
BlankDocument ==
  \/ entry = "summarize_text" /\ strip(text) = <<>>
  \/ /\ entry = "main" /\ trace[1].arg.file.exists /\ trace[1].arg.file.utf8
     /\ lower(trace[1].arg.file.suffix) \in {".txt", ".md"}
     /\ strip(trace[1].arg.file.content) = <<>>

(* C18 as stated: for an empty or whitespace-only document the pipeline      *)
(* never starts: a failure is reported to the caller and no LLM call is      *)
(* made, whether the document comes through read_file/main() or is passed    *)
(* directly to summarize_text.                                               *)
C18_Original ==
  BlankDocument => (pc = "raised" /\ NoLLMCall)

(* C19: estimate_cost makes no LLM call, works on a summarizer that has no   *)
(* client, leaves the summarizer's state unchanged, and returns the record   *)
(* that the text determines: its token count, the number of its chunks at    *)
(* the default budget, and a total that is input cost plus output cost.      *)
C19_EstimateCostOffline ==
  /\ [](entry = "estimate_cost" =>
          /\ pc = "done" /\ exc = ""
          /\ trace = <<Invoke("estimate_cost", 0, 0, text),
                       Return("estimate_cost", 0, ret)>>
          /\ ret.total_tokens = count_tokens(text)
          /\ ret.chunks = Len(split_into_chunks(text, MAX_CHUNK_TOKENS))
          /\ ret.total_cost = ret.input_cost + ret.output_cost
          /\ ret.total_cost > 0)
  /\ [][entry' = "estimate_cost" =>
          (client' = client /\ summaries' = summaries /\ chunks' = chunks)]_vars

(* an estimate for a three-chunk document on a summarizer without a client *)
C19_Witness ==
  /\ entry = "estimate_cost" /\ pc = "done" /\ ~client
  /\ ret.chunks = 3

(* C20 as stated: the estimated total cost is monotone in the size of the    *)
(* document: the estimate for D repeated twice is at least the estimate for  *)
(* D (estimate_cost, and the same computation in main()).                    *)
C20_Original ==
  /\ (entry = "estimate_cost" /\ pc = "done" /\ strip(text) # <<>>) =>
        estimate_cost(text \o text).total_cost >= ret.total_cost
  /\ (MainReadFile /\ Estimated) =>
        main_cost_estimate(trace[3].arg \o trace[3].arg, trace[1].n).total_cost
        >= trace[6].arg.total_cost

(* C21 as stated: the empty-list result of merge_summaries passes through    *)
(* _format_final_summary like every other merge result: it ends with the     *)
(* standard metadata trailer.                                                *)
C21_Original ==
  \A p \in Positions("invoke", "merge_summaries") :
    trace[p].n = 0 =>
       /\ p < Len(trace)
       /\ Is(trace[p + 1], "return", "merge_summaries")
       /\ trace[p + 1].arg = format_final_summary(NoContentBody)

(* the return that follows a non-transient failure of a per-chunk call *)
NonTransientReturns ==
  {p + 1 : p \in {q \in Positions("llm", "chunk") : trace[q].out = "other" /\ q < Len(trace)}}

(* C22 as stated: a non-transient failure of the per-chunk LLM call ends     *)
(* that chunk's summarization at once, and the placeholder returned embeds   *)
(* the error message and the chunk index.                                    *)
C22_Original ==
  /\ \A p \in Positions("llm", "chunk") :
       trace[p].out = "other" =>
          (p < Len(trace) /\ Is(trace[p + 1], "return", "summarize_chunk"))
  /\ \A r \in NonTransientReturns :
       /\ Contains(trace[r].arg, trace[r - 1].msg)
       /\ HasPiece(trace[r].arg, ToString(trace[r].idx))

(* C22, amended: a non-transient failure of the per-chunk LLM call, on any   *)
(* attempt, ends that chunk's summarization at once: summarize_chunk returns *)
(* the placeholder that embeds the error message and the chunk's 1-based     *)
(* number, chunk_index + 1, with no sleep and no further LLM call for that   *)
(* chunk.                                                                    *)
C22_NonTransientEndsChunk ==
  \A p \in Positions("llm", "chunk") :
    trace[p].out = "other" =>
       /\ p < Len(trace)
       /\ trace[p].msg \in ErrorMessages
       /\ trace[p + 1] = Return("summarize_chunk", trace[p].idx,
                                ChunkPlaceholder(trace[p].idx, trace[p].msg))
       /\ Contains(trace[p + 1].arg, trace[p].msg)
       /\ \A q \in (p + 1)..Len(trace) :
            trace[q].idx = trace[p].idx =>
              ~Is(trace[q], "llm", "chunk") /\ ~Is(trace[q], "sleep", "chunk")
       /\ (entry = "summarize_chunk") => (pc = "done" /\ ret = trace[p + 1].arg)

(* a chunk whose first call failed transiently and whose second call failed  *)
(* with another error, followed by the next chunk                            *)
C22_Witness ==
  /\ entry = "summarize_text" /\ Len(chunks) >= 2
  /\ \E p \in Positions("llm", "chunk") :
       /\ trace[p].out = "other" /\ trace[p].n = 1 /\ trace[p].idx = 0
       /\ p + 2 <= Len(trace)
       /\ Is(trace[p + 2], "invoke", "summarize_chunk")

(* ---- the phases of one summarize_text invocation ---- *)
(* the chunk list is the one computed at entry; every per-chunk event comes  *)
(* before the merge invocation and every merge event after it                *)
PhasesInOrder ==
  /\ pc \notin {"idle", "raised"} => chunks = split_into_chunks(text, MAX_CHUNK_TOKENS)
  /\ \A m \in Positions("invoke", "merge_summaries") :
       /\ \A q \in 1..Len(trace) :
            trace[q].op \in {"chunk", "summarize_chunk"} => q < m
       /\ \A q \in 1..Len(trace) :
            (trace[q].op = "merge" \/ Is(trace[q], "return", "merge_summaries")) => q > m
  /\ Cardinality(Positions("invoke", "merge_summaries")) <= 1

(* the text returned was formatted, once: it is the header, a body and the   *)
(* trailer of that body, and the body is not itself a formatted text         *)
FormattedOnce(v) ==
  /\ HasStandardShape(v)
  /\ \A k \in 0..(Len(v) - Len(Header)) :
       v = format_final_summary(SubSeq(v, Len(Header) + 1, Len(Header) + k))
         => ~HasStandardShape(SubSeq(v, Len(Header) + 1, Len(Header) + k))

(* C23 as stated: one invocation of summarize_text moves through the phases  *)
(* Chunk, Summarize-each, Merge, Format in that order and never returns to   *)
(* an earlier phase: no chunking after the first LLM call, no per-chunk call *)
(* after the merge call has started, and formatting exactly once, last.      *)
C23_Original ==
  (entry = "summarize_text" /\ client) =>
     /\ PhasesInOrder
     /\ pc = "done" => (FormattedOnce(ret) /\ trace[Len(trace)].arg = ret)

(* ---- the cost gate of main() ---- *)
EstimateOnly == entry = "main" /\ trace[1].arg.estimate_only
Asked == Positions("input", "main")
SummarizeTextInvoked == Positions("invoke", "summarize_text") # {}
OutputWritten == Positions("invoke", "save_summary") # {}
EstimateBeforeLLM ==
  \A p \in 1..Len(trace) :
    trace[p].ev = "llm" =>
      \E q \in 1..(p - 1) : trace[q].ev = "print" /\ trace[q].out = "estimate"
EstimateOnlyOffline ==
  EstimateOnly =>
    /\ NoLLMCall /\ ~SummarizeTextInvoked /\ ~OutputWritten
    /\ MainReadFile => (pc = "done" /\ Estimated)
AskedOnlyAboveLimit ==
  \A p \in Asked :
    /\ trace[p - 1].out = "estimate"
    /\ trace[p - 1].arg.total_cost > CONFIRM_ABOVE_COST

(* C24 as stated: in main() the cost estimate is computed and printed before *)
(* any LLM call; with --estimate-only no LLM call is ever made and no API    *)
(* key is needed; and when the estimated total cost is above 1.0 and the     *)
(* operator's answer is anything other than 'y', summarize_text is never     *)
(* invoked and no output file is written.                                    *)
C24_Original ==
  entry = "main" =>
    /\ EstimateBeforeLLM
    /\ EstimateOnlyOffline
    /\ AskedOnlyAboveLimit
    /\ \A p \in Asked :
         trace[p].out # "y" =>
           (~SummarizeTextInvoked /\ ~OutputWritten /\ NoLLMCall /\ pc = "done")

(* C24, amended: ... and the operator's answer, lower-cased, is anything     *)
(* other than 'y' (so 'Y' is consent too), summarize_text is never invoked   *)
(* and no output file is written.                                            *)
C24_CostGate ==
  entry = "main" =>
    /\ EstimateBeforeLLM
    /\ EstimateOnlyOffline
    /\ AskedOnlyAboveLimit
    /\ \A p \in Asked :
         IF trace[p].out \in {"y", "Y"}
         THEN Is(trace[p + 1], "invoke", "summarize_text")
         ELSE ~SummarizeTextInvoked /\ ~OutputWritten /\ NoLLMCall /\ pc = "done"
    /\ (MainReadFile /\ ~EstimateOnly /\ client
        /\ trace[6].arg.total_cost > CONFIRM_ABOVE_COST) => Asked # {}

(* an estimate above one dollar, declined by the operator *)
C24_Witness ==
  /\ entry = "main" /\ pc = "done" /\ client
  /\ Asked # {} /\ trace[7].out = "n"
  /\ trace[6].arg.total_cost > CONFIRM_ABOVE_COST
  /\ ~SummarizeTextInvoked

(* C25 as stated: the chunk token budget given by the caller (--chunk-size)  *)
(* is the max_tokens used when the document is split for summarization, so   *)
(* the chunks summarize_text processes are exactly the chunks counted and    *)
(* announced by the cost estimate of the same run.                           *)
C25_Original ==
  (entry = "main" /\ SummarizeTextInvoked) =>
     /\ chunks = split_into_chunks(text, trace[1].n)
     /\ chunks = trace[5].arg
     /\ Len(chunks) = trace[6].arg.chunks

(* ---- greedy chunking ---- *)
FirstSentence(c) == split_into_sentences(c)[1]

(* C26 as stated: for every two consecutive chunks, appending the first      *)
(* sentence of the later chunk to the earlier chunk would have exceeded      *)
(* max_tokens: a chunk is sealed only when the next sentence does not fit.   *)
C26_Original ==
  (SplitDone /\ Len(chunks) > 1) =>
     \A k \in 1..(Len(chunks) - 1) :
       count_tokens(chunks[k] \o <<NLNL>> \o FirstSentence(chunks[k + 1]))
         > max_tokens_given

(* C26, amended: for every two consecutive chunks, the earlier chunk         *)
(* followed by "\n\n", the first sentence of the later chunk and the "\n\n"  *)
(* that the chunker puts after every sentence would have exceeded            *)
(* max_tokens: a chunk is sealed only when the next sentence with its        *)
(* trailing separator does not fit.                                          *)
C26_GreedyWithSeparator ==
  (SplitDone /\ Len(chunks) > 1) =>
     \A k \in 1..(Len(chunks) - 1) :
       count_tokens(chunks[k] \o <<NLNL>> \o FirstSentence(chunks[k + 1]) \o <<NLNL>>)
         > max_tokens_given

(* three chunks, the first sealed before a sentence that would have filled  *)
(* the budget exactly had its trailing separator not been counted           *)
C26_Witness ==
  /\ SplitDone /\ Len(chunks) = 3
  /\ count_tokens(chunks[1] \o <<NLNL>> \o FirstSentence(chunks[2])) = max_tokens_given

(* ---- bounds on the work of one summarize_text invocation ---- *)
RECURSIVE SumN(_)
SumN(events) == IF events = <<>> THEN 0 ELSE Head(events).n + SumN(Tail(events))

LLMCalls == {p \in 1..Len(trace) : trace[p].ev = "llm"}
ChunkCalls(i) == {p \in Positions("llm", "chunk") : trace[p].idx = i}
ChunkSleeps(i) == SelectSeq(trace, LAMBDA e : Is(e, "sleep", "chunk") /\ e.idx = i)

(* C27: on a summarizer with a client, summarize_text terminates with a      *)
(* bounded number of LLM calls: for a document of n > 1 chunks at most 3     *)
(* calls per chunk and at most 3 merge calls (3n + 3 in all), sleeping at    *)
(* most 6 seconds per retried operation; for a document of one chunk         *)
(* exactly 1 call.  While it runs, another call or its end is possible; it   *)
(* ends by returning, or by raising out of the join of merge_summaries when  *)
(* a chunk's reply carried no content.                                       *)
C27_BoundedCalls ==
  (entry = "summarize_text" /\ client) =>
     LET n == Len(chunks)
     IN  /\ n > 1 =>
              /\ \A i \in 0..(n - 1) :
                   /\ Cardinality(ChunkCalls(i)) <= 3
                   /\ SumN(ChunkSleeps(i)) <= 6
              /\ Cardinality(Positions("llm", "merge")) <= 3
              /\ SumN(Events("sleep", "merge")) <= 6
              /\ Cardinality(LLMCalls) <= 3 * n + 3
              /\ pc \in {"chunk", "merge", "done", "raised"}
              /\ pc = "raised" => (HasNone(summaries) /\ Len(summaries) = n)
              /\ attempt < 3
         /\ n = 1 =>
              /\ Cardinality(LLMCalls) <= 1
              /\ pc \in {"direct", "done"}
              /\ pc = "done" => Cardinality(LLMCalls) = 1
         /\ n = 0 => pc = "done" /\ LLMCalls = {}

(* three chunks, every call failing transiently: 3 * 3 + 3 calls, and 6      *)
(* seconds of sleep for each of the four operations                          *)
C27_Witness ==
  /\ entry = "summarize_text" /\ pc = "done" /\ Len(chunks) = 3
  /\ Cardinality(LLMCalls) = 12
  /\ SumN(Events("sleep", "merge")) = 6
  /\ \A i \in 0..2 : SumN(ChunkSleeps(i)) = 6

(* ---- the chunker and summarize_text together ---- *)
(* documents of up to four pieces: four gaps are a blank text above the     *)
(* default budget                                                           *)
MaxChunkedLen == 4
ChunkedDocs == SeqsUpTo(DocAlphabet, MaxChunkedLen)

NextChunkedText ==
  \/ \E t \in FineTexts, m \in Budgets : SplitIntoChunks(t, m)
  \/ \E t \in ChunkedDocs, mw \in MaxWordsChoices : SummarizeText(t, mw)
  \/ \E o \in LLMOutcomes : ChunkAttempt(o)
  \/ \E o \in LLMOutcomes : MergeAttempt(o)
  \/ \E o \in LLMOutcomes : DirectAttempt(o)

SpecChunkedText == Init /\ [][NextChunkedText]_vars

BlankAbove(t, m) == strip(t) = <<>> /\ count_tokens(t) > m
EmptyMerge == \E p \in Positions("invoke", "merge_summaries") : trace[p].n = 0

(* C28 as stated: split_into_chunks returns at least one chunk for every     *)
(* text and budget, so summarize_text always sends the document's content to *)
(* at least one LLM call and never reaches merge_summaries with an empty     *)
(* list.                                                                     *)
C28_Original ==
  /\ SplitDone => chunks # <<>>
  /\ (entry = "summarize_text" /\ client) =>
        /\ chunks # <<>>
        /\ ~EmptyMerge
        /\ pc = "done" => LLMCalls # {}

(* C28, amended: split_into_chunks returns at least one chunk unless the     *)
(* text is whitespace-only and above max_tokens, when it returns the empty   *)
(* list.  summarize_text, on a summarizer with a client, sends every other   *)
(* document to at least one LLM call; a whitespace-only document above       *)
(* 10000 tokens goes to merge_summaries as an empty list and is answered     *)
(* with the "no content" text without any LLM call.                          *)
C28_AtLeastOneChunkUnlessBlank ==
  /\ SplitDone => (chunks = <<>> <=> BlankAbove(text, max_tokens_given))
  /\ (entry = "summarize_text" /\ client) =>
        IF BlankAbove(text, MAX_CHUNK_TOKENS)
        THEN /\ chunks = <<>>
             /\ trace[1] = Invoke("merge_summaries", 0, 0, <<>>)
             /\ LLMCalls = {}
             /\ pc = "done" /\ ret = NoContentSummary
        ELSE /\ chunks # <<>>
             /\ ~EmptyMerge
             /\ pc = "done" => LLMCalls # {}

(* a whitespace-only document above the budget given to summarize_text *)
C28_Witness ==
  /\ entry = "summarize_text" /\ client /\ pc = "done"
  /\ text # <<>> /\ chunks = <<>> /\ EmptyMerge

(* ======================================================================== *)
(* GitHubPRAnalyzer (src/github_pr_analyzer.py): the time range and the     *)
(* fetching of merged pull requests                                         *)
(* ======================================================================== *)
(* A datetime is a day number and a tick within the day, counted as         *)
(* day * TicksPerDay + tick: tick 0 is 00:00:00 (datetime.min.time()), tick *)
(* TicksPerDay - 1 is 23:59:59.999999 (datetime.max.time()).  A             *)
(* 'YYYY-MM-DD' string is its day number.                                   *)
TicksPerDay == 3
Today == 9
PER_PAGE == 100

(* datetime.combine(d, t, tzinfo=timezone.utc) *)
combine(day, tick) == day * TicksPerDay + tick
min_time == 0
max_time == TicksPerDay - 1
(* dt.date() and dt.strftime('%Y-%m-%d'): the time of day is dropped *)
date(dt) == dt \div TicksPerDay
strftime_date(dt) == date(dt)
(* datetime.fromisoformat('YYYY-MM-DD').replace(tzinfo=timezone.utc): midnight *)
fromisoformat_date(d) == combine(d, min_time)

TimeRanges == {"1w", "2w"}
(* the timedelta subtracted from yesterday; any unknown range takes the     *)
(* else branch, timedelta(weeks=1)                                          *)
days_back(time_range) ==
  CASE time_range = "1w" -> 6
    [] time_range = "1m" -> 29
    [] time_range = "6m" -> 179
    [] time_range = "1y" -> 364
    [] OTHER -> 7

(* get_time_range for the ranges that are not custom: <<start, end>> as     *)
(* date strings                                                             *)
get_time_range(now, time_range) ==
  LET today == date(now)
      yesterday == today - 1
      end_date == yesterday
      start_date == end_date - days_back(time_range)
      start_dt == combine(start_date, min_time)
      end_dt == combine(end_date, max_time)
  IN  <<strftime_date(start_dt), strftime_date(end_dt)>>

(* a pull request as the GitHub API lists it: merged_at is None for a PR    *)
(* closed without a merge (merged = FALSE)                                  *)
MergeDays == {Today - 9, Today - 8, Today - 7, Today - 1, Today}
EdgeDays == {Today - 7, Today - 1}
MergeTimes(days) == {combine(d, k) : d \in days, k \in 0..(TicksPerDay - 1)}
PullRequests(number, days) ==
  {[number |-> number, merged |-> FALSE, merged_at |-> 0]}
  \cup {[number |-> number, merged |-> TRUE, merged_at |-> m] : m \in MergeTimes(days)}

(* the filter of _fetch_branch_prs, lines 234-243 *)
in_range(pr, start_date, end_date) ==
  /\ pr.merged
  /\ LET merged_date == pr.merged_at
         start_dt == fromisoformat_date(start_date)
         end_dt == fromisoformat_date(end_date)
     IN  start_dt <= merged_date /\ merged_date <= end_dt

(* one branch: the response is a RequestException ("error") or one page of  *)
(* fewer than per_page closed PRs, after which the loop ends                *)
with_base_branch(pr, branch) ==
  [number |-> pr.number, merged |-> pr.merged, merged_at |-> pr.merged_at,
   base_branch |-> branch]
fetch_branch_prs(response, branch, start_date, end_date) ==
  IF response.error THEN <<>>
  ELSE LET kept == SelectSeq(response.prs, LAMBDA pr : in_range(pr, start_date, end_date))
       IN  [i \in 1..Len(kept) |-> with_base_branch(kept[i], branch)]

(* unique_prs: the first PR of each number, in order of first appearance *)
RECURSIVE unique(_)
unique(prs) ==
  IF prs = <<>> THEN <<>>
  ELSE LET front == unique(SubSeq(prs, 1, Len(prs) - 1))
           last == prs[Len(prs)]
       IN  IF \E i \in 1..Len(front) : front[i].number = last.number
           THEN front ELSE Append(front, last)

(* all_prs.sort(key=merged_at, reverse=True): stable, latest first *)
RECURSIVE sort_latest_first(_)
sort_latest_first(prs) ==
  IF prs = <<>> THEN <<>>
  ELSE LET front == sort_latest_first(SubSeq(prs, 1, Len(prs) - 1))
           last == prs[Len(prs)]
           k == Cardinality({i \in 1..Len(front) : front[i].merged_at >= last.merged_at})
       IN  SubSeq(front, 1, k) \o <<last>> \o SubSeq(front, k + 1, Len(front))

RECURSIVE concat(_)
concat(ss) == IF ss = <<>> THEN <<>> ELSE ss[1] \o concat(Tail(ss))

(* fetch_prs without a Linear token; writing the raw data file leaves the   *)
(* returned list as it is                                                   *)
fetch_prs(now, responses, time_range) ==
  LET range == get_time_range(now, time_range)
      all_prs == concat([b \in 1..Len(responses) |->
                           fetch_branch_prs(responses[b], b, range[1], range[2])])
  IN  sort_latest_first(unique(all_prs))

Failure == [error |-> TRUE, prs |-> <<>>]
Page(prs) == [error |-> FALSE, prs |-> prs]
(* the responses of one or two branches listing PR a and PR b; a PR merged  *)
(* into both branches is listed by both                                     *)
BranchResponses(a, b) ==
  LET first == {Failure, Page(<<>>), Page(<<a>>), Page(<<a, b>>)}
      second == {Failure, Page(<<a>>), Page(<<b>>)}
  IN  {<<r>> : r \in first} \cup {<<r, s>> : r \in first, s \in second}
Nows == {combine(Today, min_time), combine(Today, max_time)}

FetchPrs(now, responses, time_range) ==
  /\ pc = "idle"
  /\ \A b \in 1..Len(responses) : Len(responses[b].prs) < PER_PAGE
  /\ entry' = "fetch_prs"
  /\ LET range == get_time_range(now, time_range)
         v == fetch_prs(now, responses, time_range)
     IN  /\ ret' = v
         /\ trace' = <<Invoke("fetch_prs", 0, now, [time_range |-> time_range,
                                                     responses |-> responses]),
                       Invoke("_fetch_branch_prs", 0, Len(responses), range),
                       Return("fetch_prs", 0, v)>>
  /\ pc' = "done"
  /\ UNCHANGED <<client, text, max_words, chunks, summaries, chunk, chunk_index,
                 total_chunks, attempt, exc>>

(* ======================================================================== *)
(* GitHubPRAnalyzer: the digest (generate_beautiful_summary)                *)
(* ======================================================================== *)
(* "# <chart emoji> No Pull Requests Found\n\nNo PRs were merged in the     *)
(* specified time range."                                                   *)
NoPullRequests ==
  <<"#", " ", "<chart>", " ", "No", " ", "Pull", " ", "Requests", " ", "Found", NLNL,
    "No", " ", "PRs", " ", "were", " ", "merged", " ", "in", " ", "the", " ",
    "specified", " ", "time", " ", "range.">>
(* "# <cross emoji> OpenAI API Key Required\n\nPlease set OPENAI_API_KEY    *)
(* environment variable."                                                   *)
OpenAIKeyRequired ==
  <<"#", " ", "<cross>", " ", "OpenAI", " ", "API", " ", "Key", " ", "Required", NLNL,
    "Please", " ", "set", " ", "OPENAI_API_KEY", " ", "environment", " ", "variable.">>
(* what _create_linear_insights_section returns, as one piece *)
LinearSection == <<"<linear insights>">>
(* what _prepare_data_for_chunked_summarization returns *)
PreparedText == <<"A.", "_", "A.">>

(* the PR lists by what the digest depends on: how many PRs, how many of    *)
(* them carry linear_details                                                *)
PrCounts == {0, 1, 50, 51}
LinearItems == {0, 1}

(* len(create_summary_prompt(prs, time_range).split()): the prompt is a     *)
(* fixed template into which only len(prs) is written, one word whatever    *)
(* the count is, so it has the same number of words for every PR list       *)
PROMPT_TEMPLATE_WORDS == 384
create_summary_prompt_words(n_prs) == PROMPT_TEMPLATE_WORDS

(* _estimate_prompt_tokens is len(prompt.split()) * 1.3, compared with 8000: *)
(* both sides are taken times ten                                           *)
should_use_chunked_summarization(n_prs, prompt_words) ==
  prompt_words * 13 > 8000 * 10 \/ n_prs > 50

(* Python's binding of a call's keyword arguments to the parameters of      *)
(* def summarize_text(self, text, max_words=MAX_FINAL_WORDS): a keyword     *)
(* that names no parameter raises TypeError before the body runs            *)
summarize_text_parameters == {"text", "max_words"}
(* summarizer.summarize_text(text_content, output_format="markdown",        *)
(*                           max_words=300, include_metadata=True)          *)
chunked_call_keywords == {"output_format", "max_words", "include_metadata"}
bind_call(parameters, keywords) ==
  IF keywords \subseteq parameters THEN Running("bound") ELSE Raised("TypeError")

Say(op, kind) == Event("print", op, 0, 0, kind, <<>>, <<>>)

(* enters _generate_standard_summary: its LLM call is the next step *)
StartStandardSummary(tr, prompt_words) ==
  /\ pc' = "standard"
  /\ trace' = Append(tr, Invoke("_generate_standard_summary", 0, prompt_words, <<>>))
  /\ UNCHANGED <<text, max_words, chunks, chunk, chunk_index, total_chunks, ret, exc>>

GenerateBeautifulSummary(n_prs, linear_items, importable) ==
  /\ pc = "idle"
  /\ entry' = "generate_beautiful_summary"
  /\ UNCHANGED <<client, summaries, attempt>>
  /\ LET prompt_words == create_summary_prompt_words(n_prs)
         tr == <<Invoke("generate_beautiful_summary", 0, n_prs,
                        [linear_items |-> linear_items, importable |-> importable])>>
     IN  IF n_prs = 0 \/ ~client
         THEN LET v == IF n_prs = 0 THEN NoPullRequests ELSE OpenAIKeyRequired
              IN  /\ pc' = "done"
                  /\ ret' = v
                  /\ trace' = Append(tr, Return("generate_beautiful_summary", 0, v))
                  /\ UNCHANGED <<text, max_words, chunks, chunk, chunk_index,
                                 total_chunks, exc>>
         ELSE IF ~should_use_chunked_summarization(n_prs, prompt_words)
         THEN StartStandardSummary(Append(tr, Say("generate_beautiful_summary", "standard")),
                                   prompt_words)
         ELSE LET tc == tr \o <<Say("generate_beautiful_summary", "chunked"),
                                Invoke("_generate_chunked_summary", 0, n_prs, PreparedText)>>
                  b == bind_call(summarize_text_parameters, chunked_call_keywords)
              IN  IF ~importable
                  THEN StartStandardSummary(
                         Append(tc, Say("_generate_chunked_summary", "ImportError")),
                         prompt_words)
                  ELSE IF b.pc = "raised"
                  THEN StartStandardSummary(
                         tc \o <<Say("_generate_chunked_summary", "chunked"),
                                 Say("_generate_chunked_summary", b.exc)>>,
                         prompt_words)
                  ELSE StartSummarizeText("generate_beautiful_summary", PreparedText,
                                          MAX_FINAL_WORDS,
                                          tc \o <<Say("_generate_chunked_summary", "chunked"),
                                                  Invoke("summarize_text", 0, MAX_FINAL_WORDS,
                                                         PreparedText)>>)

(* _generate_standard_summary: one LLM call; any exception becomes the      *)
(* failure text                                                             *)
StandardAttempt(o) ==
  /\ pc = "standard"
  /\ LET v == IF Replied(o) THEN o.content ELSE DirectFailure(o.msg)
     IN  /\ ret' = v
         /\ trace' = trace \o <<LLMCall("standard", 0, 0, o, Returned(v), <<>>),
                                Return("_generate_standard_summary", 0, v),
                                Return("generate_beautiful_summary", 0, v)>>
  /\ pc' = "done"
  /\ UNCHANGED <<client, entry, text, max_words, chunks, summaries, chunk, chunk_index,
                 total_chunks, attempt, exc>>

NextAnalyzer ==
  \/ \E a \in PullRequests(1, MergeDays), b \in PullRequests(2, EdgeDays),
        now \in Nows, r \in TimeRanges :
       \E rs \in BranchResponses(a, b) : FetchPrs(now, rs, r)
  \/ \E n \in PrCounts, li \in LinearItems, im \in BOOLEAN :
       GenerateBeautifulSummary(n, li, im)
  \/ \E o \in LLMOutcomes : StandardAttempt(o)

SpecAnalyzer == Init /\ [][NextAnalyzer]_vars

(* ---- reading an analyzer run ---- *)
now_given == trace[1].n
time_range_given == trace[1].arg.time_range
responses_given == trace[1].arg.responses
Listed ==
  UNION {{responses_given[b].prs[i] : i \in 1..Len(responses_given[b].prs)} :
           b \in 1..Len(responses_given)}
Kept(pr) == \E i \in 1..Len(ret) : ret[i].number = pr.number
FetchDone == entry = "fetch_prs" /\ pc = "done"

(* C30: for time range '1w' a listed closed PR is kept exactly when it was  *)
(* merged within the 7 calendar days before today, from the start of the    *)
(* first of them to the end of yesterday                                    *)
C30_Original ==
  (FetchDone /\ time_range_given = "1w" /\ \A b \in 1..Len(responses_given) :
                                             ~responses_given[b].error)
    => \A pr \in Listed :
         Kept(pr) <=> /\ pr.merged
                      /\ combine(date(now_given) - 7, min_time) <= pr.merged_at
                      /\ pr.merged_at <= combine(date(now_given) - 1, max_time)

ChunkedSelected == Positions("invoke", "_generate_chunked_summary") # {}
DigestDone == entry = "generate_beautiful_summary" /\ pc = "done"

(* C29: when chunked summarization is selected and chunked_summarizer is    *)
(* importable, summarize_text runs and the digest is the text it returned,  *)
(* followed by the Linear section when there are Linear items               *)
C29_Original ==
  (DigestDone /\ ChunkedSelected /\ trace[1].arg.importable)
    => \E p \in Positions("return", "summarize_text") :
         ret = trace[p].arg \o (IF trace[1].arg.linear_items > 0
                                THEN <<NLNL>> \o LinearSection ELSE <<>>)

====
